---- MODULE Spec2Model ----
(***************************************************************************)
(* Kubernetes workloads panel: DeploymentsTable (deployment / replica-set  *)
(* association, row derivation, selection), WorkloadsPivot (type filter,   *)
(* zero-data placeholder, orphan pods), the life of both components on the *)
(* UI event loop, PodsRightPanel (tabs), KubeServiceBase (operations).     *)
(*                                                                         *)
(* JavaScript values are modelled as follows.                              *)
(*   - a string is a sequence of character codes (ASCII), so that          *)
(*     toLowerCase, format and includes are computed, not assumed;         *)
(*   - undefined and null are the records Undefined and Null;              *)
(*   - a number that may be null/undefined is Num(n);                      *)
(*   - a string that may be undefined is Str(s);                           *)
(*   - a list object {items: [...]} is the record [items |-> <<...>>].     *)
(***************************************************************************)
EXTENDS Integers, Sequences, FiniteSets, TLC

VARIABLES
    in,                \* arguments of the static helper under evaluation
    out,               \* results of the static helpers applied so far
    store,             \* WorkloadsStore state: deploymentList, replicaSetList
    inflight,          \* fetches dispatched and not yet resolved
    listeners,         \* handlers registered on the WorkloadsStore
    state,             \* DeploymentsTable.state
    nameFilter,        \* DeploymentsTable.props.nameFilter
    selectItem,        \* payload of SelectionActions.selectItem raised by the last step
    pivot,             \* WorkloadsPivot.state
    typeFilter,        \* props.filter.getState()[TypeKey]
    pc,                \* where each component is in its life: the next statement of
                       \* its constructor, mounted, unmounted
    panel              \* PodsRightPanel: props.pod and state.selectedTab

vars == <<in, out, store, inflight, listeners, state, nameFilter, selectItem, pivot, typeFilter, pc, panel>>

---------------------------------------------------------------------------
(* JavaScript values *)

Undefined == [type |-> "undefined"]
Null == [type |-> "null"]
Num(n) == [type |-> "number", value |-> n]
Str(s) == [type |-> "string", value |-> s]

\* x != null (loose inequality: false for both null and undefined)
NotNullish(x) == x.type \notin {"undefined", "null"}

\* results of the helpers: none before the call, <<v>> after it
None == <<>>
Some(v) == <<v>>

\* sequences over S of length 0..n
SeqsUpTo(S, n) == UNION {[1..k -> S] : k \in 0..n}

\* sequences over S that name no element twice
DistinctSeqs(S) ==
    {s \in SeqsUpTo(S, Cardinality(S)) : \A i, j \in 1..Len(s) : i # j => s[i] # s[j]}

---------------------------------------------------------------------------
(* Strings *)

\* String.prototype.toLowerCase on ASCII: 'A'..'Z' (65..90) map to 'a'..'z'
toLowerCase(s) == [i \in 1..Len(s) |-> IF s[i] \in 65..90 THEN s[i] + 32 ELSE s[i]]

RECURSIVE Digits(_)
\* the decimal digits of a non-negative integer, most significant first
Digits(n) == IF n < 10 THEN <<48 + n>> ELSE Digits(n \div 10) \o <<48 + (n % 10)>>

\* String(n) as format() inserts a number argument
NumberToString(n) == IF n < 0 THEN <<45>> \o Digits(0 - n) ELSE Digits(n)

\* format("{0}/{1}", a, b) of @uifabric/utilities: each {i} is replaced by argument i
formatSlash(a, b) == NumberToString(a) \o <<47>> \o NumberToString(b)

\* Array.prototype.indexOf(x) != -1
includes(list, x) == \E i \in 1..Len(list) : list[i] = x

\* String.prototype.includes: key occurs in s as a contiguous substring
stringIncludes(s, key) ==
    \E i \in 0..(Len(s) - Len(key)) : \A j \in 1..Len(key) : s[i + j] = key[j]

\* JavaScript truthiness (!!x)
Truthy(x) ==
    CASE x.type \in {"undefined", "null"} -> FALSE
      [] x.type = "number" -> x.value # 0
      [] x.type = "string" -> x.value # <<>>
      [] OTHER -> TRUE

---------------------------------------------------------------------------
(* Utils (shared helpers of the repository) *)

\* Utils.filterByName: no filter (undefined or "") passes everything, otherwise
\* the object name must contain the filter text
filterByName(objectName, filterKey) ==
    IF Truthy(filterKey) THEN stringIncludes(objectName, filterKey.value) ELSE TRUE

\* Utils.getPipelineText: "name / id" when the annotations carry both the
\* pipeline name and the pipeline run id, otherwise ""
getPipelineText(annotations) ==
    IF Truthy(annotations.pipelineName) /\ Truthy(annotations.pipelineId)
    THEN annotations.pipelineName.value \o <<32, 47, 32>> \o annotations.pipelineId.value
    ELSE <<>>

---------------------------------------------------------------------------
(* DeploymentsTable: static helpers *)

StatusesRunning == [type |-> "object", status |-> "Running"]
StatusesSuccess == [type |-> "object", status |-> "Success"]

\* (!!ts ? new Date(ts) : new Date()).getTime(); now is the clock new Date() reads
_getCreationTime(metadata, now) ==
    IF Truthy(metadata.creationTimestamp) THEN metadata.creationTimestamp.value ELSE now

isReplicaSetForDeployment_anyOwner(deployment, replica) ==
    /\ Truthy(deployment) /\ Truthy(replica)
    /\ toLowerCase(replica.metadata.namespace) = toLowerCase(deployment.metadata.namespace)
    /\ Truthy(replica.metadata.ownerReferences)
    /\ \E i \in 1..Len(replica.metadata.ownerReferences.value) :
          toLowerCase(replica.metadata.ownerReferences.value[i].uid)
              = toLowerCase(deployment.metadata.uid)

_isReplicaSetForDeployment(deployment, replica) ==
    /\ Truthy(deployment) /\ Truthy(replica)
    /\ toLowerCase(replica.metadata.namespace) = toLowerCase(deployment.metadata.namespace)
    /\ Truthy(replica.metadata.ownerReferences)
    /\ Len(replica.metadata.ownerReferences.value) > 0
    /\ toLowerCase(replica.metadata.ownerReferences.value[1].uid)
          = toLowerCase(deployment.metadata.uid)

compareFn_ascending(a, b, now) ==
    _getCreationTime(a.metadata, now) - _getCreationTime(b.metadata, now)

\* the comparator handed to sort: descending order of creation time
compareFn(a, b, now) ==
    _getCreationTime(b.metadata, now) - _getCreationTime(a.metadata, now)

RECURSIVE InsertSorted(_, _, _)
\* x is placed behind every element that does not compare greater than it
InsertSorted(sorted, x, now) ==
    IF sorted = <<>> THEN <<x>>
    ELSE LET last == sorted[Len(sorted)]
         IN  IF compareFn(last, x, now) > 0
             THEN InsertSorted(SubSeq(sorted, 1, Len(sorted) - 1), x, now) \o <<last>>
             ELSE sorted \o <<x>>

RECURSIVE sort(_, _)
\* Array.prototype.sort(compareFn): a stable sort (ECMAScript 2019, 22.1.3.27)
sort(list, now) ==
    IF list = <<>> THEN <<>>
    ELSE InsertSorted(sort(SubSeq(list, 1, Len(list) - 1), now), list[Len(list)], now)

\* replicaSetList && replicaSetList.items || []
itemsOrEmpty(list) == IF Truthy(list) THEN list.items ELSE <<>>

generateDeploymentReplicaSetMap_skipEmpty(deploymentList, replicaSetList, now) ==
    LET owned(d) == SelectSeq(itemsOrEmpty(replicaSetList),
                              LAMBDA replica : _isReplicaSetForDeployment(d, replica))
        kept == SelectSeq(deploymentList, LAMBDA d : owned(d) # <<>>)
    IN  [i \in 1..Len(kept) |->
            [deployment |-> kept[i], replicaSets |-> sort(owned(kept[i]), now)]]

_generateDeploymentReplicaSetMap(deploymentList, replicaSetList, now) ==
    [i \in 1..Len(deploymentList) |->
        LET deployment == deploymentList[i]
            filteredReplicas ==
                SelectSeq(itemsOrEmpty(replicaSetList),
                          LAMBDA replica : _isReplicaSetForDeployment(deployment, replica))
        IN  [deployment |-> deployment, replicaSets |-> sort(filteredReplicas, now)]]

getPodsText_noZeroCheck(availableReplicas, replicas) ==
    IF NotNullish(replicas) /\ NotNullish(availableReplicas)
    THEN formatSlash(availableReplicas.value, replicas.value)
    ELSE <<>>

_getPodsText(availableReplicas, replicas) ==
    IF NotNullish(replicas) /\ NotNullish(availableReplicas) /\ replicas.value > 0
    THEN formatSlash(availableReplicas.value, replicas.value)
    ELSE <<>>

getPodsStatusProps_runningWhenEqual(availableReplicas, replicas) ==
    IF NotNullish(replicas) /\ NotNullish(availableReplicas) /\ replicas.value > 0
    THEN IF availableReplicas.value <= replicas.value THEN StatusesRunning ELSE StatusesSuccess
    ELSE Undefined

_getPodsStatusProps(availableReplicas, replicas) ==
    IF NotNullish(replicas) /\ NotNullish(availableReplicas) /\ replicas.value > 0
    THEN IF availableReplicas.value < replicas.value THEN StatusesRunning ELSE StatusesSuccess
    ELSE Undefined

\* the fields every row takes from its replica set
RowOfReplica(deployment, replica, index, replicaSetLength, annotations) ==
    [type |-> "object",
     name |-> IF index > 0 THEN <<>> ELSE deployment.metadata.name,
     deploymentId |-> Str(deployment.metadata.uid),
     replicaSetId |-> Str(replica.metadata.uid),
     replicaSetName |-> replica.metadata.name,
     pipeline |-> getPipelineText(annotations),
     pods |-> _getPodsText(replica.status.availableReplicas, replica.status.replicas),
     statusProps |-> _getPodsStatusProps(replica.status.availableReplicas, replica.status.replicas),
     showRowBorder |-> (replicaSetLength = index + 1),
     creationTimeStamp |-> replica.metadata.creationTimestamp]

getDeploymentReplicaSetItem_replicaAnnotations(deployment, replica, index, replicaSetLength) ==
    RowOfReplica(deployment, replica, index, replicaSetLength, replica.metadata.annotations)

\* index is the 0-based position of the replica set in the deployment's group
_getDeploymentReplicaSetItem(deployment, replica, index, replicaSetLength) ==
    LET annotations == IF index = 0 THEN deployment.metadata.annotations
                                    ELSE replica.metadata.annotations
    IN  RowOfReplica(deployment, replica, index, replicaSetLength, annotations)

_getDeploymentReplicaSetItems(deployment, replicaSets) ==
    [i \in 1..Len(replicaSets) |->
        _getDeploymentReplicaSetItem(deployment, replicaSets[i], i - 1, Len(replicaSets))]

---------------------------------------------------------------------------
(* Kubernetes objects and the bounded pools the inputs are drawn from *)

MaxOwnerReferences == 2
MaxReplicas == 11
MaxReplicaSets == 3

NsLower == <<110, 115>>        \* "ns"
NsUpper == <<78, 83>>          \* "NS"
NsMixed == <<78, 115>>         \* "Ns"
NsOther == <<110, 116>>        \* "nt"
UidU1 == <<117, 49>>           \* "u1"
UidU1Upper == <<85, 49>>       \* "U1"
UidU2 == <<117, 50>>           \* "u2"
UidR1 == <<114, 49>>           \* "r1"
UidR1Upper == <<82, 49>>       \* "R1"
UidR2 == <<114, 50>>           \* "r2"
NameWeb == <<119, 101, 98>>    \* "web"
NameApi == <<97, 112, 105>>    \* "api"
NameWeb1 == <<119, 101, 98, 45, 49>>   \* "web-1"
NameJob == <<106, 111, 98>>    \* "job"

\* creation timestamps (milliseconds)
Times == {1, 2}

\* what new Date() reads while the mounted component sorts a list: the newest
\* timestamp the server handed out (SpecMap draws the clock from all of Times)
Clock == CHOOSE t \in Times : \A u \in Times : u <= t

Arr(s) == [type |-> "array", value |-> s]
List(items) == [type |-> "object", items |-> items]

\* annotations carrying pipeline name "p" and run id <<d>>, or no run id
Annotations(id) == [pipelineName |-> Str(<<112>>), pipelineId |-> id]

V1Deployment(name, namespace, uid, annotations) ==
    [type |-> "object",
     metadata |-> [name |-> name, namespace |-> namespace, uid |-> uid,
                   annotations |-> annotations]]

V1ReplicaSet(name, namespace, uid, ownerReferences, creationTimestamp, annotations, status) ==
    [type |-> "object",
     metadata |-> [name |-> name, namespace |-> namespace, uid |-> uid,
                   ownerReferences |-> ownerReferences,
                   creationTimestamp |-> creationTimestamp,
                   annotations |-> annotations],
     status |-> status]

NoStatus == [availableReplicas |-> Undefined, replicas |-> Undefined]

\* the machine variables while only static helpers are evaluated
NoStore == [deploymentList |-> Undefined, replicaSetList |-> Undefined,
            orphanPodsList |-> Undefined, workloadSize |-> 0]
NoInput == [none |-> TRUE]
NoState == [deploymentList |-> Undefined, replicaSetList |-> Undefined]
NoPivot == [workloadResourceSize |-> 0, orphanPodsList |-> <<>>]
NoOut == [isReplicaSetForDeployment |-> None, deploymentReplicaSetMap |-> None,
          items |-> None, podsText |-> None, statusProps |-> None]

\* no detail panel is open
NoPanel == [pod |-> Undefined, selectedTab |-> Str(<<>>)]

\* neither component has been constructed
NoPc == [table |-> "absent", pivot |-> "absent"]

MachineIdle ==
    /\ store = NoStore /\ inflight = {} /\ listeners = {} /\ state = NoState
    /\ nameFilter = Undefined /\ selectItem = None
    /\ pivot = NoPivot /\ typeFilter = Undefined
    /\ pc = NoPc
    /\ panel = NoPanel

machineVars == <<store, inflight, listeners, state, nameFilter, selectItem, pivot, typeFilter, pc, panel>>

---------------------------------------------------------------------------
(* SpecOwner: _isReplicaSetForDeployment on every pair of the pools *)

OwnerNamespaces == {NsLower, NsUpper, NsMixed, NsOther}
OwnerUids == {UidU1, UidU1Upper, UidU2}
OwnerReferenceLists ==
    {Undefined} \cup {Arr(s) : s \in SeqsUpTo([uid : OwnerUids], MaxOwnerReferences)}

OwnerDeployments ==
    {V1Deployment(NameWeb, ns, uid, Annotations(Undefined)) :
        ns \in OwnerNamespaces, uid \in OwnerUids}
OwnerReplicaSets ==
    {V1ReplicaSet(NameWeb1, ns, UidR1, refs, Num(1), Annotations(Undefined), NoStatus) :
        ns \in OwnerNamespaces, refs \in OwnerReferenceLists}

InitOwner ==
    /\ in \in [deployment : OwnerDeployments, replica : OwnerReplicaSets]
    /\ out = NoOut
    /\ MachineIdle

IsReplicaSetForDeployment ==
    /\ out.isReplicaSetForDeployment = None
    /\ out' = [out EXCEPT !.isReplicaSetForDeployment =
                  Some(_isReplicaSetForDeployment(in.deployment, in.replica))]
    /\ UNCHANGED <<in, machineVars>>

GenerateMapForPair ==
    /\ out.deploymentReplicaSetMap = None
    /\ out' = [out EXCEPT !.deploymentReplicaSetMap =
                  Some(_generateDeploymentReplicaSetMap(<<in.deployment>>, List(<<in.replica>>), Clock))]
    /\ UNCHANGED <<in, machineVars>>

NextOwner == IsReplicaSetForDeployment \/ GenerateMapForPair

SpecOwner == InitOwner /\ [][NextOwner]_vars

\* two strings are equal up to the case of their ASCII letters
SameIgnoringCase(s, t) ==
    /\ Len(s) = Len(t)
    /\ \A i \in 1..Len(s) :
          \/ s[i] = t[i]
          \/ s[i] \in 65..90 /\ t[i] = s[i] + 32
          \/ t[i] \in 65..90 /\ s[i] = t[i] + 32

\* the ownership rule as the specification states it
OwnedBy(deployment, replica) ==
    /\ SameIgnoringCase(replica.metadata.namespace, deployment.metadata.namespace)
    /\ replica.metadata.ownerReferences # Undefined
    /\ Len(replica.metadata.ownerReferences.value) >= 1
    /\ SameIgnoringCase(replica.metadata.ownerReferences.value[1].uid, deployment.metadata.uid)

\* C1: a replica set is placed in a deployment's group iff the namespaces are
\* equal ignoring case and the FIRST owner reference's uid equals the
\* deployment's uid ignoring case; later owner references are not consulted.
ThmC1_OwnershipRule ==
    /\ out.isReplicaSetForDeployment # None =>
          (out.isReplicaSetForDeployment[1] <=> OwnedBy(in.deployment, in.replica))
    /\ out.deploymentReplicaSetMap # None =>
          out.deploymentReplicaSetMap[1][1].replicaSets =
              IF OwnedBy(in.deployment, in.replica) THEN <<in.replica>> ELSE <<>>

\* a pair matched although namespace and uid differ in case and a second,
\* non-matching owner reference follows the first
WitC1_OwnedAcrossCase ==
    /\ out.isReplicaSetForDeployment = Some(TRUE)
    /\ out.deploymentReplicaSetMap # None
    /\ out.deploymentReplicaSetMap[1][1].replicaSets = <<in.replica>>
    /\ in.replica.metadata.namespace # in.deployment.metadata.namespace
    /\ Len(in.replica.metadata.ownerReferences.value) = 2
    /\ in.replica.metadata.ownerReferences.value[1].uid # in.deployment.metadata.uid
    /\ in.replica.metadata.ownerReferences.value[2].uid = UidU2

---------------------------------------------------------------------------
(* SpecPods: _getPodsText and _getPodsStatusProps on every pair of counts *)

PodCounts == {Undefined, Null} \cup {Num(n) : n \in 0..MaxReplicas}

InitPods ==
    /\ in \in [availableReplicas : PodCounts, replicas : PodCounts]
    /\ out = NoOut
    /\ MachineIdle

GetPodsText ==
    /\ out.podsText = None
    /\ out' = [out EXCEPT !.podsText = Some(_getPodsText(in.availableReplicas, in.replicas))]
    /\ UNCHANGED <<in, machineVars>>

GetPodsStatusProps ==
    /\ out.statusProps = None
    /\ out' = [out EXCEPT !.statusProps =
                  Some(_getPodsStatusProps(in.availableReplicas, in.replicas))]
    /\ UNCHANGED <<in, machineVars>>

NextPods == GetPodsText \/ GetPodsStatusProps

SpecPods == InitPods /\ [][NextPods]_vars

Known(x) == x # Undefined /\ x # Null

RECURSIVE DecimalValue(_)
\* the number a sequence of digit characters denotes
DecimalValue(digits) ==
    IF digits = <<>> THEN 0
    ELSE 10 * DecimalValue(SubSeq(digits, 1, Len(digits) - 1)) + (digits[Len(digits)] - 48)

\* text is the canonical decimal numeral of n (digits only, no leading zero)
IsNumeralOf(text, n) ==
    /\ Len(text) >= 1
    /\ \A i \in 1..Len(text) : text[i] \in 48..57
    /\ Len(text) > 1 => text[1] # 48
    /\ DecimalValue(text) = n

\* text reads "a/t"
ReadsAs(text, a, t) ==
    \E k \in 1..Len(text) :
        /\ text[k] = 47
        /\ IsNumeralOf(SubSeq(text, 1, k - 1), a)
        /\ IsNumeralOf(SubSeq(text, k + 1, Len(text)), t)

\* C4: the pods text is empty whenever the total is zero or either count is
\* unknown (null/undefined); in every other case it is exactly "available/total".
ThmC4_PodsText ==
    out.podsText # None =>
        IF \/ ~Known(in.availableReplicas) \/ ~Known(in.replicas)
           \/ in.replicas.value = 0
        THEN out.podsText[1] = <<>>
        ELSE ReadsAs(out.podsText[1], in.availableReplicas.value, in.replicas.value)

\* "10/11" was produced: both counts known, two digits each, total > 0
WitC4_TwoDigitText ==
    /\ out.podsText = Some(<<49, 48, 47, 49, 49>>)
    /\ in.availableReplicas = Num(10) /\ in.replicas = Num(11)

\* C5 as stated: "success" iff available == total > 0, "running" iff
\* 0 < available < total, absent otherwise.
CexC5_StatusAsStated ==
    out.statusProps # None =>
        LET known == Known(in.availableReplicas) /\ Known(in.replicas)
            a == in.availableReplicas.value
            t == in.replicas.value
        IN  /\ out.statusProps[1] = StatusesSuccess <=> (known /\ a = t /\ t > 0)
            /\ out.statusProps[1] = StatusesRunning <=> (known /\ 0 < a /\ a < t)
            /\ out.statusProps[1] \in {StatusesSuccess, StatusesRunning, Undefined}

\* C5 amended: with both counts known and total > 0 the status is "running"
\* iff available < total (available = 0 included) and "success" iff
\* available >= total; it is absent iff a count is unknown or total is 0.
ThmC5_StatusProps ==
    out.statusProps # None =>
        LET known == Known(in.availableReplicas) /\ Known(in.replicas)
            a == in.availableReplicas.value
            t == in.replicas.value
        IN  /\ out.statusProps[1] = StatusesSuccess <=> (known /\ t > 0 /\ a >= t)
            /\ out.statusProps[1] = StatusesRunning <=> (known /\ t > 0 /\ a < t)
            /\ out.statusProps[1] = Undefined <=> (~known \/ t = 0)

\* no replica available out of three: the status is "running"
WitC5_RunningAtZero ==
    /\ in.availableReplicas = Num(0) /\ in.replicas = Num(3)
    /\ out.statusProps = Some(StatusesRunning)

---------------------------------------------------------------------------
(* SpecMap: _generateDeploymentReplicaSetMap and the rows built from it *)

DeploymentWeb == V1Deployment(NameWeb, NsLower, UidU1, Annotations(Str(<<57>>)))
DeploymentApi == V1Deployment(NameApi, NsUpper, UidU2, Annotations(Undefined))
MapDeployments == {DeploymentWeb, DeploymentApi}

\* a replica set of the pool: its name, annotations and status go with its uid
MapReplicaSet(uid, owner, creationTimestamp) ==
    IF uid = UidR1
    THEN V1ReplicaSet(NameWeb1, NsLower, uid, Arr(<<[uid |-> owner]>>), creationTimestamp,
                      Annotations(Str(<<55>>)),
                      [availableReplicas |-> Num(3), replicas |-> Num(3)])
    ELSE V1ReplicaSet(NameJob, NsLower, uid, Arr(<<[uid |-> owner]>>), creationTimestamp,
                      Annotations(Str(<<56>>)),
                      [availableReplicas |-> Num(1), replicas |-> Num(3)])

MapReplicaSets ==
    {MapReplicaSet(uid, owner, ts) :
        uid \in {UidR1, UidR2}, owner \in {UidU1Upper, UidU2},
        ts \in {Undefined} \cup {Num(t) : t \in Times}}

InitMap ==
    /\ in \in [deploymentList : DistinctSeqs(MapDeployments),
               replicaSetList : {Undefined} \cup
                                {List(l) : l \in SeqsUpTo(MapReplicaSets, MaxReplicaSets)},
               now : Times]
    /\ out = NoOut
    /\ MachineIdle

GenerateDeploymentReplicaSetMap ==
    /\ out.deploymentReplicaSetMap = None
    /\ out' = [out EXCEPT !.deploymentReplicaSetMap =
                  Some(_generateDeploymentReplicaSetMap(in.deploymentList, in.replicaSetList, in.now))]
    /\ UNCHANGED <<in, machineVars>>

\* the rows of every entry, as _getDeploymentListView requests them
GetDeploymentReplicaSetItems ==
    /\ out.deploymentReplicaSetMap # None
    /\ out.items = None
    /\ LET map == out.deploymentReplicaSetMap[1]
       IN  out' = [out EXCEPT !.items =
                      Some([i \in 1..Len(map) |->
                              _getDeploymentReplicaSetItems(map[i].deployment, map[i].replicaSets)])]
    /\ UNCHANGED <<in, machineVars>>

NextMap == GenerateDeploymentReplicaSetMap \/ GetDeploymentReplicaSetItems

SpecMap == InitMap /\ [][NextMap]_vars

\* the creation time the sort sees: the timestamp, or the clock when it is missing
CreationTimeOf(replica, now) ==
    IF replica.metadata.creationTimestamp = Undefined THEN now
    ELSE replica.metadata.creationTimestamp.value

\* the replica sets of the input list, in input order, that deployment owns
OwnedInInput(deployment, replicaSetList) ==
    IF replicaSetList = Undefined THEN <<>>
    ELSE SelectSeq(replicaSetList.items, LAMBDA r : OwnedBy(deployment, r))

\* C2: in every entry the replica sets are in descending order of creation
\* time, and replica sets of equal creation time keep their input order.
ThmC2_SortedDescendingStable ==
    out.deploymentReplicaSetMap # None =>
        \A e \in 1..Len(out.deploymentReplicaSetMap[1]) :
            LET entry == out.deploymentReplicaSetMap[1][e]
                rs == entry.replicaSets
                input == OwnedInInput(entry.deployment, in.replicaSetList)
            IN  /\ \A i \in 1..(Len(rs) - 1) :
                      CreationTimeOf(rs[i], in.now) >= CreationTimeOf(rs[i + 1], in.now)
                /\ \A t \in Times :
                      SelectSeq(rs, LAMBDA r : CreationTimeOf(r, in.now) = t)
                          = SelectSeq(input, LAMBDA r : CreationTimeOf(r, in.now) = t)

\* three owned replica sets given oldest first, the two newest tied: the entry
\* lists the tied pair first, in input order, then the oldest
WitC2_ReorderedWithTie ==
    /\ out.deploymentReplicaSetMap # None
    /\ in.deploymentList = <<DeploymentWeb>>
    /\ in.replicaSetList # Undefined
    /\ in.replicaSetList.items = <<MapReplicaSet(UidR1, UidU1Upper, Num(1)),
                                   MapReplicaSet(UidR2, UidU1Upper, Num(2)),
                                   MapReplicaSet(UidR1, UidU1Upper, Num(2))>>
    /\ out.deploymentReplicaSetMap[1][1].replicaSets =
           <<MapReplicaSet(UidR2, UidU1Upper, Num(2)),
             MapReplicaSet(UidR1, UidU1Upper, Num(2)),
             MapReplicaSet(UidR1, UidU1Upper, Num(1))>>

\* C3: one entry per deployment of the input list, in input order, an empty
\* entry included (no owned replica set, or replica-set list undefined); every
\* replica set of an entry comes from the input and satisfies the ownership rule.
ThmC3_OneEntryPerDeployment ==
    out.deploymentReplicaSetMap # None =>
        LET map == out.deploymentReplicaSetMap[1]
        IN  /\ Len(map) = Len(in.deploymentList)
            /\ \A e \in 1..Len(map) :
                  /\ map[e].deployment = in.deploymentList[e]
                  /\ in.replicaSetList = Undefined => map[e].replicaSets = <<>>
                  /\ \A i \in 1..Len(map[e].replicaSets) :
                        /\ OwnedBy(map[e].deployment, map[e].replicaSets[i])
                        /\ includes(in.replicaSetList.items, map[e].replicaSets[i])

\* two deployments, every replica set owned by the second: the first entry is
\* empty, the second is not
WitC3_EmptyEntryKept ==
    /\ out.deploymentReplicaSetMap # None
    /\ in.deploymentList = <<DeploymentWeb, DeploymentApi>>
    /\ Len(out.deploymentReplicaSetMap[1]) = 2
    /\ out.deploymentReplicaSetMap[1][1] = [deployment |-> DeploymentWeb, replicaSets |-> <<>>]
    /\ Len(out.deploymentReplicaSetMap[1][2].replicaSets) = 2

\* C6: the first row of a deployment takes its pipeline text from the
\* deployment's annotations and shows the deployment's name; every later row
\* takes the pipeline text from its own replica set's annotations and has an
\* empty name.
ThmC6_PipelineSourcePerRow ==
    out.items # None =>
        \A e \in 1..Len(out.items[1]) :
            LET entry == out.deploymentReplicaSetMap[1][e]
                rows == out.items[1][e]
            IN  /\ Len(rows) = Len(entry.replicaSets)
                /\ \A i \in 1..Len(rows) :
                      IF i = 1
                      THEN /\ rows[i].pipeline = getPipelineText(entry.deployment.metadata.annotations)
                           /\ rows[i].name = entry.deployment.metadata.name
                      ELSE /\ rows[i].pipeline = getPipelineText(entry.replicaSets[i].metadata.annotations)
                           /\ rows[i].name = <<>>

\* a deployment with two rows whose first row shows the deployment's pipeline
\* run ("p / 9") although its replica set is annotated with another ("p / 7")
WitC6_FirstRowFromDeployment ==
    /\ out.items # None
    /\ Len(out.items[1]) >= 1
    /\ Len(out.items[1][1]) = 2
    /\ out.items[1][1][1].pipeline = <<112, 32, 47, 32, 57>>
    /\ out.deploymentReplicaSetMap[1][1].replicaSets[1].metadata.uid = UidR1
    /\ out.items[1][1][2].pipeline = <<112, 32, 47, 32, 56>>
    /\ out.items[1][1][1].name = NameWeb
    /\ out.items[1][1][2].name = <<>>

---------------------------------------------------------------------------
(* DeploymentsTable: the mounted component *)

ReplicaSetsFetchedListener == <<"ReplicaSetsFetchedEvent", "DeploymentsTable._onReplicaSetsFetched">>

onReplicaSetsFetched_replicaSetsOnly(storeState) ==
    [deploymentList |-> state.deploymentList,
     replicaSetList |-> storeState.replicaSetList]

\* _onReplicaSetsFetched: both lists are taken from one store snapshot
_onReplicaSetsFetched(storeState) ==
    [deploymentList |-> storeState.deploymentList,
     replicaSetList |-> storeState.replicaSetList]

\* one table per entry: its heading and its rows
_getDeploymentListView(filteredDeployments) ==
    LET map == _generateDeploymentReplicaSetMap(filteredDeployments, state.replicaSetList, Clock)
    IN  [index \in 1..Len(map) |->
            [headingContent |-> map[index].deployment.metadata.name,
             deployment |-> map[index].deployment,
             items |-> _getDeploymentReplicaSetItems(map[index].deployment, map[index].replicaSets)]]

\* <div>{children}</div>
Div(children) == [type |-> "div", children |-> children]

render_unfiltered ==
    LET filteredDeployments == itemsOrEmpty(state.deploymentList)
    IN  IF Len(filteredDeployments) > 0 THEN Div(_getDeploymentListView(filteredDeployments)) ELSE Null

\* render: Null, or the div holding one table per filtered deployment
render ==
    LET filteredDeployments ==
            SelectSeq(itemsOrEmpty(state.deploymentList),
                      LAMBDA deployment : filterByName(deployment.metadata.name, nameFilter))
    IN  IF Len(filteredDeployments) > 0 THEN Div(_getDeploymentListView(filteredDeployments)) ELSE Null

getSelectedReplicaSet_lastMatch(selectedItem) ==
    IF Truthy(selectedItem) /\ Truthy(selectedItem.deploymentId) /\ Truthy(selectedItem.replicaSetId)
    THEN LET selectedItemReplicaSetUId == toLowerCase(selectedItem.replicaSetId.value)
             filteredReplica ==
                 SelectSeq(itemsOrEmpty(state.replicaSetList),
                           LAMBDA replica : toLowerCase(replica.metadata.uid) = selectedItemReplicaSetUId)
         IN  IF filteredReplica = <<>> THEN Undefined ELSE filteredReplica[Len(filteredReplica)]
    ELSE Null

\* filteredReplica[0] of an empty array is undefined
_getSelectedReplicaSet(selectedItem) ==
    IF Truthy(selectedItem) /\ Truthy(selectedItem.deploymentId) /\ Truthy(selectedItem.replicaSetId)
    THEN LET selectedItemReplicaSetUId == toLowerCase(selectedItem.replicaSetId.value)
             filteredReplica ==
                 SelectSeq(itemsOrEmpty(state.replicaSetList),
                           LAMBDA replica : toLowerCase(replica.metadata.uid) = selectedItemReplicaSetUId)
         IN  IF filteredReplica = <<>> THEN Undefined ELSE filteredReplica[1]
    ELSE Null

\* what _openDeploymentItem hands to selectItem.invoke, if it invokes it
_openDeploymentItem(selectedItem) ==
    LET selectedReplicaSet == _getSelectedReplicaSet(selectedItem)
    IN  IF Truthy(selectedReplicaSet)
        THEN Some([item |-> selectedReplicaSet, showSelectedItem |-> TRUE,
                   selectedItemType |-> "ReplicaSetKey"])
        ELSE None

---------------------------------------------------------------------------
(* The UI event loop *)

\* the positions inside the constructors: the next statement to execute
\* (DeploymentsTable.tsx lines 55 and 57, WorkloadsPivot lines 64 and 65)
TableConstructing == {"constructor:55", "constructor:57"}
PivotConstructing == {"constructor:64", "constructor:65"}

\* no constructor is on the call stack: only then does the event loop run the
\* next callback (a promise resolution, a user event, an unmount)
EventLoopIdle == pc.table \notin TableConstructing /\ pc.pivot \notin PivotConstructing

---------------------------------------------------------------------------
(* SpecTable: DeploymentsTable from construction to unmount *)

DeploymentJob == V1Deployment(NameJob, NsLower, UidU2, Annotations(Undefined))
TableDeployments == {DeploymentWeb, DeploymentJob}

TableStatus == [availableReplicas |-> Num(1), replicas |-> Num(3)]
ReplicaSetWeb1 ==
    V1ReplicaSet(NameWeb1, NsLower, UidR1Upper, Arr(<<[uid |-> UidU1]>>), Num(2),
                 Annotations(Str(<<55>>)), TableStatus)
ReplicaSetAdopted ==
    V1ReplicaSet(NameJob, NsLower, UidR1, Arr(<<[uid |-> UidU1Upper]>>), Num(1),
                 Annotations(Str(<<56>>)), TableStatus)
ReplicaSetJob ==
    V1ReplicaSet(NameJob, NsLower, UidR2, Arr(<<[uid |-> UidU2]>>), Undefined,
                 Annotations(Undefined), TableStatus)
TableReplicaSets == {ReplicaSetWeb1, ReplicaSetAdopted, ReplicaSetJob}

NameFilters == {Undefined, Str(<<>>), Str(NameWeb), Str(NameApi)}

\* rows a table can hand to onItemActivated that do not come from this render:
\* a row without deployment id, without replica-set id, of a replica set
\* that has left the list
RowWithoutDeploymentId ==
    [_getDeploymentReplicaSetItem(DeploymentWeb, ReplicaSetWeb1, 0, 1) EXCEPT !.deploymentId = Str(<<>>)]
RowWithoutReplicaSetId ==
    [_getDeploymentReplicaSetItem(DeploymentWeb, ReplicaSetWeb1, 0, 1) EXCEPT !.replicaSetId = Undefined]
RowOfJob == _getDeploymentReplicaSetItem(DeploymentJob, ReplicaSetJob, 0, 1)

RenderedRows ==
    IF render = Null THEN {}
    ELSE UNION {{render.children[t].items[i] : i \in 1..Len(render.children[t].items)} : t \in 1..Len(render.children)}

InitTable ==
    /\ in = NoInput
    /\ out = NoOut
    /\ store = NoStore
    /\ inflight = {"getDeployments", "getReplicaSets"}
    /\ listeners = {ReplicaSetsFetchedListener}
    /\ state = [deploymentList |-> Undefined, replicaSetList |-> Undefined]
    /\ nameFilter \in NameFilters
    /\ selectItem = None
    /\ pivot = NoPivot
    /\ typeFilter = Undefined
    /\ pc = [table |-> "mounted", pivot |-> "absent"]
    /\ panel = NoPanel

\* the parent's getDeployments resolves with one of lists: the store caches it
DeploymentsFetched(lists) ==
    /\ EventLoopIdle
    /\ "getDeployments" \in inflight
    /\ \E list \in lists :
          store' = [store EXCEPT !.deploymentList = List(list)]
    /\ inflight' = inflight \ {"getDeployments"}
    /\ in' = NoInput /\ selectItem' = None
    /\ UNCHANGED <<out, listeners, state, nameFilter, pivot, typeFilter, pc, panel>>

ResolveGetDeployments == DeploymentsFetched(DistinctSeqs(TableDeployments))

\* the getReplicaSets dispatch named fetch resolves with one of lists: the
\* store caches the list and emits ReplicaSetsFetchedEvent, which runs the
\* handler if it is registered
ReplicaSetsFetched(fetch, lists) ==
    /\ EventLoopIdle
    /\ fetch \in inflight
    /\ \E list \in lists :
          store' = [store EXCEPT !.replicaSetList = List(list)]
    /\ inflight' = inflight \ {fetch}
    /\ state' = IF ReplicaSetsFetchedListener \in listeners
                THEN _onReplicaSetsFetched(store') ELSE state
    /\ in' = NoInput /\ selectItem' = None
    /\ UNCHANGED <<out, listeners, nameFilter, pivot, typeFilter, pc, panel>>

ResolveGetReplicaSets ==
    ReplicaSetsFetched("getReplicaSets", SeqsUpTo(TableReplicaSets, MaxReplicaSets))

\* the parent passes another nameFilter
SetNameFilter ==
    /\ ReplicaSetsFetchedListener \in listeners
    /\ \E f \in NameFilters : f # nameFilter /\ nameFilter' = f
    /\ in' = NoInput /\ selectItem' = None
    /\ UNCHANGED <<out, store, inflight, listeners, state, pivot, typeFilter, pc, panel>>

\* a row is activated: _openDeploymentItem
OpenDeploymentItem ==
    /\ ReplicaSetsFetchedListener \in listeners
    /\ \E selectedItem \in RenderedRows \cup {RowWithoutDeploymentId, RowWithoutReplicaSetId, RowOfJob} :
          /\ in' = [selectedItem |-> selectedItem]
          /\ selectItem' = _openDeploymentItem(selectedItem)
    /\ UNCHANGED <<out, store, inflight, listeners, state, nameFilter, pivot, typeFilter, pc, panel>>

ComponentWillUnmount ==
    /\ EventLoopIdle
    /\ pc.table = "mounted"
    /\ listeners' = listeners \ {ReplicaSetsFetchedListener}
    /\ pc' = [pc EXCEPT !.table = "unmounted"]
    /\ in' = NoInput /\ selectItem' = None
    /\ UNCHANGED <<out, store, inflight, state, nameFilter, pivot, typeFilter, panel>>

NextTable ==
    \/ ResolveGetDeployments
    \/ ResolveGetReplicaSets
    \/ SetNameFilter
    \/ OpenDeploymentItem
    \/ ComponentWillUnmount

SpecTable == InitTable /\ [][NextTable]_vars

\* the deployments the component holds whose names pass the name filter
PassingDeployments ==
    IF state.deploymentList = Undefined THEN <<>>
    ELSE SelectSeq(state.deploymentList.items,
                   LAMBDA d : filterByName(d.metadata.name, nameFilter))

\* C8 as stated: every rendered group belongs to a deployment passing the name
\* filter, every rendered replica-set row passes the name filter as well, and
\* nothing (null) is rendered when no deployment passes.
CexC8_RowsPassNameFilter ==
    /\ PassingDeployments = <<>> => render = Null
    /\ render # Null =>
          \A t \in 1..Len(render.children) :
              /\ filterByName(render.children[t].headingContent, nameFilter)
              /\ \A i \in 1..Len(render.children[t].items) :
                    filterByName(render.children[t].items[i].replicaSetName, nameFilter)

\* C8 amended: the name filter narrows the deployments only. The rendered
\* groups are the deployments passing the filter, in list order; the rows of a
\* group are all replica sets of the list the deployment owns, whatever their
\* names; nothing (null) is rendered when no deployment passes.
ThmC8_NameFilterNarrowsDeployments ==
    /\ PassingDeployments = <<>> => render = Null
    /\ PassingDeployments # <<>> =>
          /\ render # Null
          /\ Len(render.children) = Len(PassingDeployments)
          /\ \A t \in 1..Len(render.children) :
                /\ render.children[t].deployment = PassingDeployments[t]
                /\ filterByName(render.children[t].headingContent, nameFilter)
                /\ Len(render.children[t].items)
                      = Len(OwnedInInput(render.children[t].deployment, state.replicaSetList))
                /\ \A r \in 1..Len(OwnedInInput(render.children[t].deployment, state.replicaSetList)) :
                      \E i \in 1..Len(render.children[t].items) :
                          render.children[t].items[i].replicaSetName
                              = OwnedInInput(render.children[t].deployment, state.replicaSetList)[r].metadata.name

\* filter "web": deployment "job" is hidden, deployment "web" is shown with
\* its adopted replica set "job", whose name does not pass the filter
WitC8_OwnedRowShownUnfiltered ==
    /\ nameFilter = Str(NameWeb)
    /\ state.deploymentList = List(<<DeploymentJob, DeploymentWeb>>)
    /\ render # Null
    /\ Len(render.children) = 1
    /\ render.children[1].headingContent = NameWeb
    /\ \E i \in 1..Len(render.children[1].items) :
          /\ render.children[1].items[i].replicaSetName = NameJob
          /\ ~filterByName(render.children[1].items[i].replicaSetName, nameFilter)

\* the first replica set of the component's list whose uid is id up to case
FirstWithUid(id) ==
    LET items == IF state.replicaSetList = Undefined THEN <<>> ELSE state.replicaSetList.items
        hits == {k \in 1..Len(items) : SameIgnoringCase(items[k].metadata.uid, id)}
    IN  IF hits = {} THEN None
        ELSE Some(items[CHOOSE k \in hits : \A j \in hits : k <= j])

\* C9: activating a row raises selectItem with the first replica set of the
\* current replicaSetList whose uid equals the row's replicaSetId ignoring
\* case, showSelectedItem = true and the kind ReplicaSetKey; no event is raised
\* when the row lacks a deploymentId or a replicaSetId, or no replica set of
\* the list has that uid.
ThmC9_SelectItemCarriesFirstMatch ==
    in # NoInput =>
        LET row == in.selectedItem
            lacksId == \/ row.deploymentId = Undefined \/ row.deploymentId = Str(<<>>)
                       \/ row.replicaSetId = Undefined \/ row.replicaSetId = Str(<<>>)
        IN  IF lacksId \/ FirstWithUid(row.replicaSetId.value) = None
            THEN selectItem = None
            ELSE selectItem = Some([item |-> FirstWithUid(row.replicaSetId.value)[1],
                                    showSelectedItem |-> TRUE,
                                    selectedItemType |-> "ReplicaSetKey"])

\* the row of "r1" is activated while "R1" precedes it in the list: the event
\* carries the replica set "R1"
WitC9_FirstOfTwoCaseVariants ==
    /\ in # NoInput
    /\ in.selectedItem.replicaSetId = Str(UidR1)
    /\ state.replicaSetList = List(<<ReplicaSetJob, ReplicaSetWeb1, ReplicaSetAdopted>>)
    /\ selectItem # None
    /\ selectItem[1].item = ReplicaSetWeb1

---------------------------------------------------------------------------
(* WorkloadsPivot *)

MaxSelections == 2
MaxWorkloadSize == 2

\* KubeResourceType
KubeResourceTypes == {"Pods", "Deployments", "Services", "ReplicaSets", "DaemonSets", "StatefulSets"}

PodsFetchedListener == <<"WorkloadPodsFetchedEvent", "WorkloadsPivot._onPodsFetched">>
DataFoundListener == <<"WorkloadsFoundEvent", "WorkloadsPivot._onDataFound">>

\* filterItem ? filterItem.value : []
_getTypeFilterValue == IF Truthy(typeFilter) THEN typeFilter.value ELSE <<>>

showComponent_always(resourceType) == TRUE

_showComponent(resourceType) ==
    LET selections == _getTypeFilterValue
    IN  IF Len(selections) > 0 THEN includes(selections, resourceType) ELSE TRUE

\* storeState.orphanPodsList || []
_onPodsFetched(storeState) ==
    [pivot EXCEPT !.orphanPodsList =
        IF Truthy(storeState.orphanPodsList) THEN storeState.orphanPodsList.value ELSE <<>>]

onDataFound_unlatched(workloadSize) ==
    [pivot EXCEPT !.workloadResourceSize = workloadSize]

\* the size is taken only while none is held and the store has workloads
_onDataFound(workloadSize) ==
    IF pivot.workloadResourceSize <= 0 /\ workloadSize > 0
    THEN [pivot EXCEPT !.workloadResourceSize = workloadSize]
    ELSE pivot

\* getOrphanPods: the PodsTable is given the store's orphan pods
getOrphanPods ==
    [type |-> "PodsTable",
     podsToRender |-> IF Truthy(store.orphanPodsList) THEN store.orphanPodsList.value ELSE <<>>]

KubeZeroData ==
    [type |-> "KubeZeroData",
     hyperLink |-> "https://kubernetes.io/docs/concepts/workloads/pods/pod/",
     title |-> "NoWorkLoadsText"]

WorkloadTables_storeTested ==
    [deployments |-> IF _showComponent("Deployments") THEN [type |-> "DeploymentsTable"] ELSE [type |-> "false"],
     daemonSets |-> IF _showComponent("DaemonSets") THEN [type |-> "DaemonSetTable"] ELSE [type |-> "false"],
     statefulSets |-> IF _showComponent("StatefulSets") THEN [type |-> "StatefulSetTable"] ELSE [type |-> "false"],
     orphanPods |-> IF Len(getOrphanPods.podsToRender) > 0 /\ _showComponent("Pods")
                    THEN getOrphanPods ELSE [type |-> "false"]]

\* the children of the div: each is the component or FALSE (nothing rendered)
WorkloadTables ==
    [deployments |-> IF _showComponent("Deployments") THEN [type |-> "DeploymentsTable"] ELSE [type |-> "false"],
     daemonSets |-> IF _showComponent("DaemonSets") THEN [type |-> "DaemonSetTable"] ELSE [type |-> "false"],
     statefulSets |-> IF _showComponent("StatefulSets") THEN [type |-> "StatefulSetTable"] ELSE [type |-> "false"],
     orphanPods |-> IF Len(pivot.orphanPodsList) > 0 /\ _showComponent("Pods")
                    THEN getOrphanPods ELSE [type |-> "false"]]

getContent_zeroDataWithoutPods ==
    IF pivot.workloadResourceSize = 0 /\ pivot.orphanPodsList = <<>>
    THEN KubeZeroData
    ELSE [type |-> "div", children |-> WorkloadTables]

_getContent ==
    IF pivot.workloadResourceSize = 0
    THEN KubeZeroData
    ELSE [type |-> "div", children |-> WorkloadTables]

---------------------------------------------------------------------------
(* SpecPivot: WorkloadsPivot from construction to unmount *)

PodA == [type |-> "object", metadata |-> [name |-> <<97>>]]
PodB == [type |-> "object", metadata |-> [name |-> <<98>>]]
OrphanPodLists == {Undefined} \cup {Arr(l) : l \in DistinctSeqs({PodA, PodB})}

TypeFilters == {Undefined} \cup {[type |-> "object", value |-> sel] :
                                    sel \in SeqsUpTo(KubeResourceTypes, MaxSelections)}

InitPivot ==
    /\ in = NoInput
    /\ out = NoOut
    /\ store = NoStore
    /\ inflight = {"getPods"}
    /\ listeners = {PodsFetchedListener, DataFoundListener}
    /\ state = NoState
    /\ nameFilter = Undefined
    /\ selectItem = None
    /\ pivot = [workloadResourceSize |-> 0, orphanPodsList |-> <<>>]
    /\ typeFilter \in TypeFilters
    /\ pc = [table |-> "absent", pivot |-> "mounted"]
    /\ panel = NoPanel

\* the store has counted its workloads and emits WorkloadsFoundEvent
WorkloadsFound ==
    /\ EventLoopIdle
    /\ \E size \in 0..MaxWorkloadSize :
          /\ store' = [store EXCEPT !.workloadSize = size]
          /\ pivot' = IF DataFoundListener \in listeners THEN _onDataFound(size) ELSE pivot
    /\ UNCHANGED <<in, out, inflight, listeners, state, nameFilter, selectItem, typeFilter, pc, panel>>

\* the getPods dispatch named fetch resolves: the store derives the orphan
\* pods (one of lists) and emits WorkloadPodsFetchedEvent, which runs the
\* handler if it is registered
PodsFetched(fetch, lists) ==
    /\ EventLoopIdle
    /\ fetch \in inflight
    /\ inflight' = inflight \ {fetch}
    /\ \E pods \in lists : store' = [store EXCEPT !.orphanPodsList = pods]
    /\ pivot' = IF PodsFetchedListener \in listeners THEN _onPodsFetched(store') ELSE pivot
    /\ UNCHANGED <<in, out, listeners, state, nameFilter, selectItem, typeFilter, pc, panel>>

\* the fetch the constructor dispatched resolves
WorkloadPodsFetched == PodsFetched("getPods", OrphanPodLists)

\* another consumer of the pods (the services view, a later instance of the
\* pivot) dispatches getPods
OtherGetPods ==
    /\ EventLoopIdle
    /\ "getPods (other)" \notin inflight
    /\ inflight' = inflight \cup {"getPods (other)"}
    /\ UNCHANGED <<in, out, store, listeners, state, nameFilter, selectItem, pivot, typeFilter, pc, panel>>

OtherPodsFetched == PodsFetched("getPods (other)", OrphanPodLists)

\* the user changes the type selection in the filter bar to one of filters
TypeFilterChangedTo(filters) ==
    /\ EventLoopIdle
    /\ pc.pivot = "mounted"
    /\ \E f \in filters : f # typeFilter /\ typeFilter' = f
    /\ UNCHANGED <<in, out, store, inflight, listeners, state, nameFilter, selectItem, pivot, pc, panel>>

TypeFilterChanged == TypeFilterChangedTo(TypeFilters)

PivotWillUnmount ==
    /\ EventLoopIdle
    /\ pc.pivot = "mounted"
    /\ listeners' = listeners \ {PodsFetchedListener, DataFoundListener}
    /\ pc' = [pc EXCEPT !.pivot = "unmounted"]
    /\ UNCHANGED <<in, out, store, inflight, state, nameFilter, selectItem, pivot, typeFilter, panel>>

NextPivot ==
    \/ WorkloadsFound
    \/ WorkloadPodsFetched
    \/ TypeFilterChanged
    \/ PivotWillUnmount

SpecPivot == InitPivot /\ [][NextPivot]_vars

\* the resource types selected in the filter bar, as a set
SelectedTypes ==
    IF typeFilter = Undefined THEN {}
    ELSE {typeFilter.value[i] : i \in 1..Len(typeFilter.value)}

Rendered(child) == child.type # "false"

\* C7: _showComponent(T) holds iff the selection is empty or contains T; with
\* only DaemonSets selected the Deployments, StatefulSets and Pods tables are
\* not rendered, whatever the store and the component hold.
ThmC7_TypeFilterShowsSelected ==
    /\ \A T \in {"Deployments", "DaemonSets", "StatefulSets", "Pods"} :
          _showComponent(T) <=> (SelectedTypes = {} \/ T \in SelectedTypes)
    /\ (SelectedTypes = {"DaemonSets"} /\ _getContent.type = "div") =>
          /\ ~Rendered(_getContent.children.deployments)
          /\ ~Rendered(_getContent.children.statefulSets)
          /\ ~Rendered(_getContent.children.orphanPods)
          /\ Rendered(_getContent.children.daemonSets)

\* only DaemonSets selected while workloads and orphan pods are present
WitC7_OnlyDaemonSets ==
    /\ SelectedTypes = {"DaemonSets"}
    /\ pivot.workloadResourceSize > 0
    /\ Len(pivot.orphanPodsList) = 2
    /\ _getContent.type = "div"
    /\ ~Rendered(_getContent.children.orphanPods)
    /\ Rendered(_getContent.children.daemonSets)

\* C10: with workloadResourceSize = 0 the content is the zero-data placeholder
\* with the documentation link and no table, whatever the type filter and the
\* orphan pods are; with workloadResourceSize # 0 it is not the placeholder.
ThmC10_ZeroDataIffNoWorkloads ==
    /\ pivot.workloadResourceSize = 0 =>
          /\ _getContent.type = "KubeZeroData"
          /\ _getContent.hyperLink = "https://kubernetes.io/docs/concepts/workloads/pods/pod/"
          /\ "children" \notin DOMAIN _getContent
    /\ pivot.workloadResourceSize # 0 =>
          /\ _getContent.type = "div"
          /\ _getContent # KubeZeroData

\* the placeholder is shown although orphan pods were fetched and Pods is selected
WitC10_ZeroDataDespitePods ==
    /\ pivot.workloadResourceSize = 0
    /\ Len(pivot.orphanPodsList) > 0
    /\ SelectedTypes = {"Pods"}
    /\ _getContent = KubeZeroData

---------------------------------------------------------------------------
(* SpecOrphans: the pivot over a store other consumers fetch pods into *)

OrphanTypeFilters ==
    {Undefined} \cup {[type |-> "object", value |-> sel] :
                         sel \in {<<>>, <<"Pods">>, <<"DaemonSets">>, <<"Pods", "Services">>}}

\* the pivot is constructed over the shared store, which may hold the orphan
\* pods of an earlier fetch
InitOrphans ==
    /\ in = NoInput
    /\ out = NoOut
    /\ store \in {NoStore, [NoStore EXCEPT !.orphanPodsList = Arr(<<PodA>>)]}
    /\ inflight = {"getPods"}
    /\ listeners = {PodsFetchedListener, DataFoundListener}
    /\ state = NoState
    /\ nameFilter = Undefined
    /\ selectItem = None
    /\ pivot = [workloadResourceSize |-> 0, orphanPodsList |-> <<>>]
    /\ typeFilter \in OrphanTypeFilters
    /\ pc = [table |-> "absent", pivot |-> "mounted"]
    /\ panel = NoPanel

OrphanTypeFilterChanged == TypeFilterChangedTo(OrphanTypeFilters)

NextOrphans ==
    \/ WorkloadsFound
    \/ WorkloadPodsFetched
    \/ OtherGetPods
    \/ OtherPodsFetched
    \/ OrphanTypeFilterChanged
    \/ PivotWillUnmount

SpecOrphans == InitOrphans /\ [][NextOrphans]_vars

\* the orphan-pods table is part of what the pivot renders
OrphanPodsTableRendered ==
    _getContent.type = "div" /\ Rendered(_getContent.children.orphanPods)

\* C13: the mounted pivot renders the orphan-pods table iff
\* workloadResourceSize is not 0, its cached orphanPodsList is not empty and
\* the type selection is empty or contains Pods; the pods the table is given
\* are then the cached orphanPodsList.
ThmC13_OrphanPodsTableShowsCachedList ==
    pc.pivot = "mounted" =>
        /\ OrphanPodsTableRendered <=>
              /\ pivot.workloadResourceSize # 0
              /\ pivot.orphanPodsList # <<>>
              /\ (SelectedTypes = {} \/ "Pods" \in SelectedTypes)
        /\ OrphanPodsTableRendered =>
              /\ _getContent.children.orphanPods.type = "PodsTable"
              /\ _getContent.children.orphanPods.podsToRender = pivot.orphanPodsList

\* after a second fetch the table is rendered with the two pods of the cached
\* list while Pods and Services are selected
WitC13_TableOfTwoCachedPods ==
    /\ pc.pivot = "mounted"
    /\ inflight = {}
    /\ SelectedTypes = {"Pods", "Services"}
    /\ pivot.orphanPodsList = <<PodB, PodA>>
    /\ OrphanPodsTableRendered
    /\ _getContent.children.orphanPods.podsToRender = <<PodB, PodA>>

\* C15: workloadResourceSize is 0 after construction; a step changes it only
\* by delivering WorkloadsFoundEvent to the registered handler while it is
\* <= 0 and the store's workload size is > 0, and then to that size; once it
\* is positive no step changes it, whatever the store's workload size becomes
\* and whatever pods are fetched.
ThmC15_WorkloadResourceSizeLatches ==
    /\ pivot.workloadResourceSize = 0
    /\ [][/\ pivot'.workloadResourceSize # pivot.workloadResourceSize =>
              /\ pivot.workloadResourceSize <= 0
              /\ store'.workloadSize > 0
              /\ pivot'.workloadResourceSize = store'.workloadSize
              /\ DataFoundListener \in listeners
              /\ inflight' = inflight
          /\ pivot.workloadResourceSize > 0 =>
              /\ pivot'.workloadResourceSize = pivot.workloadResourceSize
              /\ _getContent' # KubeZeroData]_vars

\* the size latched at 1 while the store has since counted 0 workloads and
\* the pods have been fetched: the tables stay, the placeholder is not shown
WitC15_StoredSizeLagsStore ==
    /\ pc.pivot = "mounted"
    /\ pivot.workloadResourceSize = 1
    /\ store.workloadSize = 0
    /\ "getPods" \notin inflight
    /\ _getContent.type = "div"

---------------------------------------------------------------------------
(* The constructors, statement by statement *)

TableConstructor_getReplicaSets_synchronous ==
    /\ EventLoopIdle
    /\ pc.table = "absent"
    /\ pc.pivot = "mounted"
    /\ _getContent.type = "div" /\ Rendered(_getContent.children.deployments)
    /\ store' = [store EXCEPT !.replicaSetList = List(<<ReplicaSetWeb1>>)]
    /\ state' = IF ReplicaSetsFetchedListener \in listeners
                THEN _onReplicaSetsFetched(store') ELSE state
    /\ pc' = [pc EXCEPT !.table = "constructor:55"]
    /\ UNCHANGED <<in, out, inflight, listeners, nameFilter, selectItem, pivot, typeFilter, panel>>

\* DeploymentsTable line 53: getReplicaSets is dispatched. The pivot renders
\* the table only in its div, when the Deployments type is shown.
TableConstructor_getReplicaSets ==
    /\ EventLoopIdle
    /\ pc.table = "absent"
    /\ pc.pivot = "mounted"
    /\ _getContent.type = "div" /\ Rendered(_getContent.children.deployments)
    /\ inflight' = inflight \cup {"getReplicaSets"}
    /\ pc' = [pc EXCEPT !.table = "constructor:55"]
    /\ UNCHANGED <<in, out, store, listeners, state, nameFilter, selectItem, pivot, typeFilter, panel>>

\* line 55: this.state = { deploymentList: undefined, replicaSetList: undefined }
TableConstructor_state ==
    /\ pc.table = "constructor:55"
    /\ state' = [deploymentList |-> Undefined, replicaSetList |-> Undefined]
    /\ pc' = [pc EXCEPT !.table = "constructor:57"]
    /\ UNCHANGED <<in, out, store, inflight, listeners, nameFilter, selectItem, pivot, typeFilter, panel>>

\* line 57: addListener(ReplicaSetsFetchedEvent, this._onReplicaSetsFetched)
TableConstructor_addListener ==
    /\ pc.table = "constructor:57"
    /\ listeners' = listeners \cup {ReplicaSetsFetchedListener}
    /\ pc' = [pc EXCEPT !.table = "mounted"]
    /\ UNCHANGED <<in, out, store, inflight, state, nameFilter, selectItem, pivot, typeFilter, panel>>

\* WorkloadsPivot lines 56-62: the state is initialised, getPods is dispatched
PivotConstructor_getPods ==
    /\ EventLoopIdle
    /\ pc.pivot = "absent"
    /\ pivot' = [workloadResourceSize |-> 0, orphanPodsList |-> <<>>]
    /\ inflight' = inflight \cup {"getPods"}
    /\ pc' = [pc EXCEPT !.pivot = "constructor:64"]
    /\ UNCHANGED <<in, out, store, listeners, state, nameFilter, selectItem, typeFilter, panel>>

\* line 64: addListener(WorkloadPodsFetchedEvent, this._onPodsFetched)
PivotConstructor_addPodsListener ==
    /\ pc.pivot = "constructor:64"
    /\ listeners' = listeners \cup {PodsFetchedListener}
    /\ pc' = [pc EXCEPT !.pivot = "constructor:65"]
    /\ UNCHANGED <<in, out, store, inflight, state, nameFilter, selectItem, pivot, typeFilter, panel>>

\* line 65: addListener(WorkloadsFoundEvent, this._onDataFound)
PivotConstructor_addFoundListener ==
    /\ pc.pivot = "constructor:65"
    /\ listeners' = listeners \cup {DataFoundListener}
    /\ pc' = [pc EXCEPT !.pivot = "mounted"]
    /\ UNCHANGED <<in, out, store, inflight, state, nameFilter, selectItem, pivot, typeFilter, panel>>

---------------------------------------------------------------------------
(* SpecLifecycle: both components from before construction to after unmount *)

LifeDeploymentLists == {<<>>, <<DeploymentWeb>>}
LifeReplicaSetLists == {<<>>, <<ReplicaSetWeb1>>}
LifeOrphanPodLists == {Undefined, Arr(<<PodA>>)}

\* nothing is constructed; the parent has dispatched getDeployments
InitLifecycle ==
    /\ in = NoInput
    /\ out = NoOut
    /\ store = NoStore
    /\ inflight = {"getDeployments"}
    /\ listeners = {}
    /\ state = NoState
    /\ nameFilter = Undefined
    /\ selectItem = None
    /\ pivot = NoPivot
    /\ typeFilter = Undefined
    /\ pc = NoPc
    /\ panel = NoPanel

LifeDeploymentsFetched == DeploymentsFetched(LifeDeploymentLists)

\* the fetch the table's constructor dispatched resolves
TableReplicaSetsFetched == ReplicaSetsFetched("getReplicaSets", LifeReplicaSetLists)

\* another consumer of the store (a later instance of the table) dispatches
\* getReplicaSets
OtherGetReplicaSets ==
    /\ EventLoopIdle
    /\ "getReplicaSets (other)" \notin inflight
    /\ inflight' = inflight \cup {"getReplicaSets (other)"}
    /\ UNCHANGED <<in, out, store, listeners, state, nameFilter, selectItem, pivot, typeFilter, pc, panel>>

OtherReplicaSetsFetched == ReplicaSetsFetched("getReplicaSets (other)", LifeReplicaSetLists)

LifePodsFetched == PodsFetched("getPods", LifeOrphanPodLists)

\* React unmounts the table no later than the pivot that renders it
PivotUnmounts == pc.table # "mounted" /\ PivotWillUnmount

NextLifecycle ==
    \/ PivotConstructor_getPods
    \/ PivotConstructor_addPodsListener
    \/ PivotConstructor_addFoundListener
    \/ TableConstructor_getReplicaSets
    \/ TableConstructor_state
    \/ TableConstructor_addListener
    \/ LifeDeploymentsFetched
    \/ WorkloadsFound
    \/ LifePodsFetched
    \/ TableReplicaSetsFetched
    \/ OtherGetReplicaSets
    \/ OtherReplicaSetsFetched
    \/ ComponentWillUnmount
    \/ PivotUnmounts

SpecLifecycle == InitLifecycle /\ [][NextLifecycle]_vars

\* a getReplicaSets fetch resolves in this step: the store emits
\* ReplicaSetsFetchedEvent
ReplicaSetsFetchedEmitted ==
    \E fetch \in {"getReplicaSets", "getReplicaSets (other)"} :
        fetch \in inflight /\ fetch \notin inflight'

\* C12: the table's state changes only in a step that delivers
\* ReplicaSetsFetchedEvent to the mounted table, whose listener is registered;
\* every such delivery sets deploymentList and replicaSetList to the store's
\* values after that step; until the table is mounted, and as long as the store
\* has had no replica sets fetched, both are undefined, and with both undefined
\* the table renders nothing whatever deployments the store holds; once
\* unmounted the listener is gone and no step changes the state.
ThmC12_StateFollowsFetchedEvents ==
    /\ [](pc.table \in {"absent"} \cup TableConstructing => state = NoState)
    /\ [](store.replicaSetList = Undefined => state = NoState)
    /\ [](state = NoState => render = Null)
    /\ [](pc.table = "unmounted" => ReplicaSetsFetchedListener \notin listeners)
    /\ [][/\ state' # state =>
              /\ pc.table = "mounted"
              /\ ReplicaSetsFetchedListener \in listeners
              /\ ReplicaSetsFetchedEmitted
          /\ (ReplicaSetsFetchedEmitted /\ pc.table = "mounted") =>
              /\ state'.deploymentList = store'.deploymentList
              /\ state'.replicaSetList = store'.replicaSetList
          /\ pc.table = "unmounted" => state' = state]_vars

\* the table took its snapshot before the deployments arrived, was unmounted,
\* and a later event emptied the store's replica sets: the state still holds
\* the snapshot
WitC12_SnapshotKeptAfterUnmount ==
    /\ pc.table = "unmounted"
    /\ state = [deploymentList |-> Undefined, replicaSetList |-> List(<<ReplicaSetWeb1>>)]
    /\ store.deploymentList = List(<<DeploymentWeb>>)
    /\ store.replicaSetList = List(<<>>)
    /\ render = Null

\* C16: while a constructor has dispatched its fetch and not yet registered
\* its listeners, that fetch is still in flight; a mounted component whose own
\* fetch has resolved holds the result (the table the store's replica sets,
\* the pivot the store's orphan pods); a mounted component has its listeners
\* registered, an unmounted one has none, and with both unmounted the store
\* has no listener left.
ThmC16_OwnFetchNeverMissed ==
    /\ pc.table \in TableConstructing =>
          /\ "getReplicaSets" \in inflight
          /\ ReplicaSetsFetchedListener \notin listeners
    /\ pc.pivot \in PivotConstructing =>
          /\ "getPods" \in inflight
          /\ DataFoundListener \notin listeners
    /\ (pc.table = "mounted" /\ "getReplicaSets" \notin inflight) =>
          /\ state.replicaSetList # Undefined
          /\ state.replicaSetList = store.replicaSetList
    /\ (pc.pivot = "mounted" /\ "getPods" \notin inflight) =>
          pivot.orphanPodsList =
              IF Truthy(store.orphanPodsList) THEN store.orphanPodsList.value ELSE <<>>
    /\ pc.table = "mounted" => ReplicaSetsFetchedListener \in listeners
    /\ pc.pivot = "mounted" => {PodsFetchedListener, DataFoundListener} \subseteq listeners
    /\ pc.table = "unmounted" => ReplicaSetsFetchedListener \notin listeners
    /\ pc.pivot = "unmounted" => listeners \cap {PodsFetchedListener, DataFoundListener} = {}
    /\ (pc.table = "unmounted" /\ pc.pivot = "unmounted") => listeners = {}

\* both components received the result of their own fetch and were unmounted:
\* the store has no listener left
WitC16_BothServedAndUnmounted ==
    /\ pc = [table |-> "unmounted", pivot |-> "unmounted"]
    /\ inflight = {}
    /\ state.replicaSetList = List(<<ReplicaSetWeb1>>)
    /\ pivot.orphanPodsList = <<PodA>>
    /\ listeners = {}

---------------------------------------------------------------------------
(* PodsRightPanel *)

MaxTabChanges == 4

\* PodsRightPanelTabsKeys: "pod-details", "pod-logs", "pod-yaml"
PodsDetailsKey == <<112, 111, 100, 45, 100, 101, 116, 97, 105, 108, 115>>
PodsLogsKey == <<112, 111, 100, 45, 108, 111, 103, 115>>
PodsYamlKey == <<112, 111, 100, 45, 121, 97, 109, 108>>

\* the ids of the <Tab> children of the TabBar
Tabs == <<PodsDetailsKey, PodsLogsKey, PodsYamlKey>>

PodDetailsView == [type |-> "PodDetailsView", pod |-> panel.pod]
LogsStub == [type |-> "span", text |-> "Pods Logs View coming soon..."]
YamlStub == [type |-> "span", text |-> "Pods YAML View coming soon..."]

\* setState({ selectedTab: selectedTab })
_onSelectedTabChanged(selectedTab) == [panel EXCEPT !.selectedTab = Str(selectedTab)]

getTabContent_stubUnlessDetails ==
    CASE panel.selectedTab.value = PodsDetailsKey -> PodDetailsView
      [] panel.selectedTab.value = PodsLogsKey -> LogsStub
      [] OTHER -> YamlStub

\* switch (this.state.selectedTab)
_getTabContent ==
    CASE panel.selectedTab.value = PodsLogsKey -> LogsStub
      [] panel.selectedTab.value = PodsYamlKey -> YamlStub
      [] OTHER -> PodDetailsView

\* render of PodsRightPanel: the tab bar with its highlighted tab, the content
PodsRightPanel_render ==
    [type |-> "div",
     tabBar |-> [selectedTabId |-> IF Truthy(panel.selectedTab)
                                   THEN panel.selectedTab.value ELSE PodsDetailsKey,
                 tabs |-> Tabs],
     content |-> _getTabContent]

---------------------------------------------------------------------------
(* SpecPanel: the detail panel of one pod; in.tabChanges lists the tabs the *)
(* user has selected so far                                                *)

InitPanel ==
    /\ in = [tabChanges |-> <<>>]
    /\ out = NoOut
    /\ store = NoStore /\ inflight = {} /\ listeners = {} /\ state = NoState
    /\ nameFilter = Undefined /\ selectItem = None
    /\ pivot = NoPivot /\ typeFilter = Undefined
    /\ pc = NoPc
    /\ panel \in [pod : {PodA, PodB}, selectedTab : {Str(<<>>)}]

\* the user clicks a tab: the TabBar calls onSelectedTabChanged with its id
SelectedTabChanged ==
    /\ Len(in.tabChanges) < MaxTabChanges
    /\ \E t \in 1..Len(Tabs) :
          /\ panel' = _onSelectedTabChanged(Tabs[t])
          /\ in' = [tabChanges |-> Append(in.tabChanges, Tabs[t])]
    /\ UNCHANGED <<out, store, inflight, listeners, state, nameFilter, selectItem, pivot, typeFilter, pc>>

\* the parent renders the panel with another pod
PodPropChanged ==
    /\ \E pod \in {PodA, PodB} : pod # panel.pod /\ panel' = [panel EXCEPT !.pod = pod]
    /\ UNCHANGED <<in, out, store, inflight, listeners, state, nameFilter, selectItem, pivot, typeFilter, pc>>

NextPanel == SelectedTabChanged \/ PodPropChanged

SpecPanel == InitPanel /\ [][NextPanel]_vars

\* the tab the user selected last, Details before any selection
LastSelectedTab ==
    IF in.tabChanges = <<>> THEN PodsDetailsKey ELSE in.tabChanges[Len(in.tabChanges)]

\* C14: after any sequence of tab changes the highlighted tab is the one
\* selected last (Details before any selection) and the content is that tab's:
\* the details view of the pod prop for Details, the logs stub for Logs, the
\* YAML stub for YAML; a tab change leaves the pod prop as it is.
ThmC14_ContentMatchesHighlightedTab ==
    /\ [](/\ PodsRightPanel_render.tabBar.selectedTabId = LastSelectedTab
          /\ LastSelectedTab = PodsDetailsKey =>
                PodsRightPanel_render.content = [type |-> "PodDetailsView", pod |-> panel.pod]
          /\ LastSelectedTab = PodsLogsKey =>
                PodsRightPanel_render.content.text = "Pods Logs View coming soon..."
          /\ LastSelectedTab = PodsYamlKey =>
                PodsRightPanel_render.content.text = "Pods YAML View coming soon...")
    /\ [][in'.tabChanges # in.tabChanges => panel'.pod = panel.pod]_vars

\* Logs, then YAML, then Details again: the details view of the pod is back
WitC14_BackToDetails ==
    /\ in.tabChanges = <<PodsLogsKey, PodsYamlKey, PodsDetailsKey>>
    /\ panel.selectedTab = Str(PodsDetailsKey)
    /\ PodsRightPanel_render.tabBar.selectedTabId = PodsDetailsKey
    /\ PodsRightPanel_render.content = [type |-> "PodDetailsView", pod |-> PodB]

---------------------------------------------------------------------------
(* KubeServiceBase under MockKubeService *)

MaxCalls == 2

\* "app=app", "tier=web"
SelectorApp == <<97, 112, 112, 61, 97, 112, 112>>
SelectorTier == <<116, 105, 101, 114, 61, 119, 101, 98>>
LabelSelectors == {Undefined, Str(SelectorApp), Str(SelectorTier)}

fetch_alwaysPods(resourceType) == "Pods"

\* MockKubeService.fetch: the value Promise.resolve(resourceType) resolves to
fetch(resourceType) == resourceType

\* the operations of KubeServiceBase: the fetch call each one makes and returns
getPods(labelSelector) == [resourceType |-> "Pods", labelSelector |-> labelSelector]
getDeployments == [resourceType |-> "Deployments", labelSelector |-> Undefined]
getReplicaSets == [resourceType |-> "ReplicaSets", labelSelector |-> Undefined]
getServices == [resourceType |-> "Services", labelSelector |-> Undefined]
getDaemonSets == [resourceType |-> "DaemonSets", labelSelector |-> Undefined]
getStatefulSets == [resourceType |-> "StatefulSets", labelSelector |-> Undefined]

\* the calls a client can make: operation, argument, the fetch call it makes
ServiceCalls ==
    {[op |-> "getPods", labelSelector |-> sel, fetch |-> getPods(sel)] : sel \in LabelSelectors}
    \cup {[op |-> "getDeployments", labelSelector |-> Undefined, fetch |-> getDeployments],
          [op |-> "getReplicaSets", labelSelector |-> Undefined, fetch |-> getReplicaSets],
          [op |-> "getServices", labelSelector |-> Undefined, fetch |-> getServices],
          [op |-> "getDaemonSets", labelSelector |-> Undefined, fetch |-> getDaemonSets],
          [op |-> "getStatefulSets", labelSelector |-> Undefined, fetch |-> getStatefulSets]}

---------------------------------------------------------------------------
(* SpecService: calls on the service and the resolution of their promises *)

\* inflight holds the promises not yet resolved, out the resolved ones
InitService ==
    /\ in = NoInput
    /\ out = {}
    /\ store = NoStore /\ inflight = {} /\ listeners = {} /\ state = NoState
    /\ nameFilter = Undefined /\ selectItem = None
    /\ pivot = NoPivot /\ typeFilter = Undefined
    /\ pc = NoPc /\ panel = NoPanel

\* service.getX(...): fetch is called and its promise is returned
CallService ==
    /\ Cardinality(inflight) + Cardinality(out) < MaxCalls
    /\ \E call \in ServiceCalls :
          inflight' = inflight \cup
              {[id |-> Cardinality(inflight) + Cardinality(out) + 1, op |-> call.op,
                labelSelector |-> call.labelSelector, fetch |-> call.fetch]}
    /\ UNCHANGED <<in, out, store, listeners, state, nameFilter, selectItem, pivot, typeFilter, pc, panel>>

\* the promise of fetch resolves; the operation's promise is that promise
FetchResolves ==
    /\ \E promise \in inflight :
          /\ inflight' = inflight \ {promise}
          /\ out' = out \cup
                {[id |-> promise.id, op |-> promise.op, labelSelector |-> promise.labelSelector,
                  fetched |-> fetch(promise.fetch.resourceType),
                  output |-> fetch(promise.fetch.resourceType)]}
    /\ UNCHANGED <<in, store, listeners, state, nameFilter, selectItem, pivot, typeFilter, pc, panel>>

NextService == CallService \/ FetchResolves

SpecService == InitService /\ [][NextService]_vars

\* the resource type of an operation's own kind
OwnKind(op) ==
    CASE op = "getPods" -> "Pods"
      [] op = "getDeployments" -> "Deployments"
      [] op = "getReplicaSets" -> "ReplicaSets"
      [] op = "getServices" -> "Services"
      [] op = "getDaemonSets" -> "DaemonSets"
      [] op = "getStatefulSets" -> "StatefulSets"

====
